---- MODULE Spec2Model ----
(***************************************************************************)
(* Model of src/main.py: analizza_e_modifica_video, the exposure-correcting *)
(* frame loop, together with the example invocation of the __main__ block.  *)
(*                                                                         *)
(* A frame is a sequence of pixels, a pixel is a triple <<B, G, R>> of      *)
(* 8-bit intensities.  Rational numbers (the correction factor, the mean    *)
(* luminance) are kept exact as numerator/denominator pairs.                *)
(***************************************************************************)
EXTENDS Integers, Sequences, FiniteSets

\* ---------------------------------------------------------------- bounds
MaxFrames == 3
MaxFps == 4
MaxRate == 5

\* ------------------------------------------------------- example (__main__)
ExampleFrames == 100
ExampleFps == 20
ExampleRate == 5
ExampleUnder == 70
ExampleOver == 190
ExampleFactor == <<13, 10>>

\* default thresholds of the signature
DefaultUnder == 80
DefaultOver == 180

MaxChannel == 255

\* int(abs(sin(i * 0.05)) * 255) for i = 0 .. 99
dummy_brightness ==
  << 0, 12, 25, 38, 50, 63, 75, 87, 99, 110, 122, 133, 143, 154, 164, 173,
     182, 191, 199, 207, 214, 221, 227, 232, 237, 241, 245, 248, 251, 253,
     254, 254, 254, 254, 252, 250, 248, 245, 241, 236, 231, 226, 220, 213,
     206, 198, 190, 181, 172, 162, 152, 142, 131, 120, 108, 97, 85, 73, 61,
     48, 35, 23, 10, 2, 14, 27, 40, 52, 65, 77, 89, 101, 112, 124, 135, 145,
     156, 165, 175, 184, 192, 201, 208, 215, 222, 228, 233, 238, 242, 246,
     249, 251, 253, 254, 254, 254, 254, 252, 250, 247 >>

\* np.full(shape, (v, v, v)): a frame whose pixels all have the same grey
\* value (two pixels stand for the 640 x 480 grid)
UniformFrame(v) == << <<v, v, v>>, <<v, v, v>> >>

\* the frames the example driver writes into video_originale.mp4
dummy_video == [i \in 1..ExampleFrames |-> UniformFrame(dummy_brightness[i])]

\* ------------------------------------------------------------ input space
\* frames a decoded stream may contain: black, a dark coloured frame, the two
\* default thresholds as uniform greys, a bright coloured frame
FrameSet ==
  { UniformFrame(0),
    << <<5, 30, 150>>, <<3, 3, 3>> >>,
    UniformFrame(DefaultUnder),
    UniformFrame(DefaultOver),
    << <<250, 200, 240>>, <<255, 213, 201>> >> }

RECURSIVE StreamsOfLen(_)
StreamsOfLen(n) ==
  IF n = 0 THEN { <<>> }
  ELSE { Append(s, f) : s \in StreamsOfLen(n - 1), f \in FrameSet }

Streams == UNION { StreamsOfLen(n) : n \in 0..MaxFrames }

FpsSet == 0..MaxFps
RateSet == (-1)..MaxRate
ThresholdSet == { <<DefaultUnder, DefaultOver>>,
                  <<ExampleUnder, ExampleOver>>,
                  <<ExampleOver, ExampleUnder>> }
FactorSet == { <<6, 5>>, <<3, 2>>, <<4, 5>> }

\* ------------------------------------------------------------------ state
VARIABLES
  video,                    \* frames stored in the file at percorso_video_input
  fps,                      \* native frame rate reported by the capture
  fps_analisi,
  soglia_sottoesposizione,
  soglia_sovraesposizione,
  fattore_correzione,       \* <<numerator, denominator>>
  pc,                       \* position of the call
  esito,                    \* how the call ended ("" while it is running)
  cap_opened,               \* cap.isOpened()
  cap_pos,                  \* number of frames the capture has delivered
  cap_released,             \* number of cap.release() calls
  out_created,              \* the VideoWriter was constructed
  out_opened,               \* out.isOpened()
  out_released,             \* number of out.release() calls
  written,                  \* frames received by the output sink, in order
  frame_count,
  frame_interval,           \* 0 while unassigned
  analysed,                 \* indices on which the luminance was measured
  gains                     \* per written frame, the gains applied to it

params == <<video, fps, fps_analisi, soglia_sottoesposizione,
            soglia_sovraesposizione, fattore_correzione>>

vars == <<video, fps, fps_analisi, soglia_sottoesposizione,
          soglia_sovraesposizione, fattore_correzione, pc, esito, cap_opened,
          cap_pos, cap_released, out_created, out_opened, out_released,
          written, frame_count, frame_interval, analysed, gains>>

\* ------------------------------------------------------- pure computations
Abs(x) == IF x < 0 THEN -x ELSE x

\* int(a / b): the quotient cut towards zero (b # 0)
TruncDiv(a, b) ==
  IF (a >= 0) = (b > 0) THEN Abs(a) \div Abs(b) ELSE -(Abs(a) \div Abs(b))

\* frame_interval of lines 46-48, for fps_analisi # 0
FrameIntervalOffByOne(f, rate) ==
  IF TruncDiv(f, rate) + 1 < 1 THEN 1 ELSE TruncDiv(f, rate) + 1

FrameInterval(f, rate) ==
  IF TruncDiv(f, rate) < 1 THEN 1 ELSE TruncDiv(f, rate)

\* the test of line 58
IsSampledAlways(i, interval) == TRUE

IsSampled(i, interval) == i % interval = 0

\* cv2.cvtColor(pixel, COLOR_BGR2GRAY): Y = 0.299 R + 0.587 G + 0.114 B,
\* rounded to the nearest integer
Gray(p) == (299 * p[3] + 587 * p[2] + 114 * p[1] + 500) \div 1000

RECURSIVE GraySum(_)
GraySum(frame) ==
  IF frame = <<>> THEN 0 ELSE Gray(Head(frame)) + GraySum(Tail(frame))

\* luminosita_media = np.mean(gray_frame) is GraySum(frame) / Len(frame);
\* the two comparisons of lines 65 and 73 against an integer threshold
LumBelow(frame, soglia) == GraySum(frame) < soglia * Len(frame)
LumAbove(frame, soglia) == GraySum(frame) > soglia * Len(frame)

\* cvRound(n / d) for n >= 0, d > 0: nearest integer, ties to even
RoundHalfEven(n, d) ==
  LET q == n \div d
      r == n % d
  IN  IF 2 * r < d THEN q
      ELSE IF 2 * r > d THEN q + 1
      ELSE IF q % 2 = 0 THEN q ELSE q + 1

\* saturate_cast<uchar>(|alpha * v|) with alpha = num / den, den # 0
ScaleChannelWrapping(v, num, den) ==
  RoundHalfEven(Abs(num * v), Abs(den)) % (MaxChannel + 1)

ScaleChannel(v, num, den) ==
  LET x == RoundHalfEven(Abs(num * v), Abs(den))
  IN  IF x > MaxChannel THEN MaxChannel ELSE x

\* cv2.convertScaleAbs(frame, alpha = num / den, beta = 0)
convertScaleAbs(frame, num, den) ==
  [p \in 1..Len(frame) |->
     [c \in 1..3 |-> ScaleChannel(frame[p][c], num, den)]]

\* lines 64-79: the decision on a sampled frame.  The result carries the
\* frame to write and the list of gains that were applied to it.
ExposureCorrectionInclusive(frame, under, over, factor) ==
  IF ~LumAbove(frame, under)
  THEN [frame |-> convertScaleAbs(frame, factor[1], factor[2]),
        gains |-> << factor >>]
  ELSE IF ~LumBelow(frame, over)
  THEN [frame |-> convertScaleAbs(frame, factor[2], factor[1]),
        gains |-> << <<factor[2], factor[1]>> >>]
  ELSE [frame |-> frame, gains |-> <<>>]

ExposureCorrectionBoth(frame, under, over, factor) ==
  LET first == IF LumBelow(frame, under)
               THEN [frame |-> convertScaleAbs(frame, factor[1], factor[2]),
                     gains |-> << factor >>]
               ELSE [frame |-> frame, gains |-> <<>>]
  IN  IF LumAbove(frame, over)
      THEN [frame |-> convertScaleAbs(first.frame, factor[2], factor[1]),
            gains |-> Append(first.gains, <<factor[2], factor[1]>>)]
      ELSE first

ExposureCorrection(frame, under, over, factor) ==
  IF LumBelow(frame, under)
  THEN [frame |-> convertScaleAbs(frame, factor[1], factor[2]),
        gains |-> << factor >>]
  ELSE IF LumAbove(frame, over)
  THEN [frame |-> convertScaleAbs(frame, factor[2], factor[1]),
        gains |-> << <<factor[2], factor[1]>> >>]
  ELSE [frame |-> frame, gains |-> <<>>]

\* lines 58-81: what one loop iteration does to frame number i
ProcessFrame(frame, i, interval, under, over, factor) ==
  IF IsSampled(i, interval)
  THEN [frame |-> ExposureCorrection(frame, under, over, factor).frame,
        gains |-> ExposureCorrection(frame, under, over, factor).gains,
        analysed |-> TRUE]
  ELSE [frame |-> frame, gains |-> <<>>, analysed |-> FALSE]

\* ------------------------------------------------------------------- Init
\* the call as the caller may issue it
InitCall ==
  /\ video \in Streams
  /\ fps \in FpsSet
  /\ fps_analisi \in RateSet
  /\ \E t \in ThresholdSet :
       /\ soglia_sottoesposizione = t[1]
       /\ soglia_sovraesposizione = t[2]
  /\ fattore_correzione \in FactorSet

\* the call of lines 117-121 on the generated example video
InitExample ==
  /\ video = dummy_video
  /\ fps = ExampleFps
  /\ fps_analisi = ExampleRate
  /\ soglia_sottoesposizione = ExampleUnder
  /\ soglia_sovraesposizione = ExampleOver
  /\ fattore_correzione = ExampleFactor

Init ==
  /\ (InitCall \/ InitExample)
  /\ pc = "open_input"
  /\ esito = ""
  /\ cap_opened = FALSE
  /\ cap_pos = 0
  /\ cap_released = 0
  /\ out_created = FALSE
  /\ out_opened = FALSE
  /\ out_released = 0
  /\ written = <<>>
  /\ frame_count = 0
  /\ frame_interval = 0
  /\ analysed = {}
  /\ gains = <<>>

\* ---------------------------------------------------------------- actions
\* lines 20-24: cv2.VideoCapture(path); return if it did not open
OpenInputNoReturn ==
  /\ pc = "open_input"
  /\ \E ok \in BOOLEAN :
       /\ cap_opened' = ok
       /\ esito' = IF ok THEN "" ELSE "input_open_error"
  /\ pc' = "open_output"
  /\ UNCHANGED <<params, cap_pos, cap_released, out_created, out_opened,
                 out_released, written, frame_count, frame_interval,
                 analysed, gains>>

OpenInput ==
  /\ pc = "open_input"
  /\ \E ok \in BOOLEAN :
       /\ cap_opened' = ok
       /\ pc' = IF ok THEN "open_output" ELSE "returned"
       /\ esito' = IF ok THEN "" ELSE "input_open_error"
  /\ UNCHANGED <<params, cap_pos, cap_released, out_created, out_opened,
                 out_released, written, frame_count, frame_interval,
                 analysed, gains>>

\* lines 27-37: cv2.VideoWriter(path, ...); return if it did not open
OpenOutput ==
  /\ pc = "open_output"
  /\ out_created' = TRUE
  /\ \E ok \in BOOLEAN :
       /\ out_opened' = ok
       /\ pc' = IF ok THEN "frame_interval" ELSE "returned"
       /\ esito' = IF ok THEN esito ELSE "output_open_error"
  /\ UNCHANGED <<params, cap_opened, cap_pos, cap_released, out_released,
                 written, frame_count, frame_interval, analysed, gains>>

\* lines 39-48: frame_count = 0; frame_interval = int(fps / fps_analisi),
\* raised to 1.  The division raises ZeroDivisionError for fps_analisi = 0
\* and the exception leaves the call.
ComputeInterval ==
  /\ pc = "frame_interval"
  /\ frame_count' = 0
  /\ IF fps_analisi = 0
     THEN /\ pc' = "raised"
          /\ esito' = "ZeroDivisionError"
          /\ UNCHANGED frame_interval
     ELSE /\ pc' = "loop"
          /\ frame_interval' = FrameInterval(fps, fps_analisi)
          /\ UNCHANGED esito
  /\ UNCHANGED <<params, cap_opened, cap_pos, cap_released, out_created,
                 out_opened, out_released, written, analysed, gains>>

\* lines 50-85, a frame is available: read, analyse, correct, write, count
LoopIterationWriteSampledOnly ==
  /\ pc = "loop"
  /\ cap_pos < Len(video)
  /\ LET r == ProcessFrame(video[cap_pos + 1], frame_count, frame_interval,
                           soglia_sottoesposizione, soglia_sovraesposizione,
                           fattore_correzione)
     IN  /\ cap_pos' = cap_pos + 1
         /\ written' = IF r.analysed THEN Append(written, r.frame) ELSE written
         /\ gains' = IF r.analysed THEN Append(gains, r.gains) ELSE gains
         /\ analysed' = IF r.analysed THEN analysed \cup {frame_count}
                        ELSE analysed
         /\ frame_count' = frame_count + 1
  /\ UNCHANGED <<params, pc, esito, cap_opened, cap_released, out_created,
                 out_opened, out_released, frame_interval>>

LoopIteration ==
  /\ pc = "loop"
  /\ cap_pos < Len(video)
  /\ LET r == ProcessFrame(video[cap_pos + 1], frame_count, frame_interval,
                           soglia_sottoesposizione, soglia_sovraesposizione,
                           fattore_correzione)
     IN  /\ cap_pos' = cap_pos + 1
         /\ written' = Append(written, r.frame)
         /\ gains' = Append(gains, r.gains)
         /\ analysed' = IF r.analysed THEN analysed \cup {frame_count}
                        ELSE analysed
         /\ frame_count' = frame_count + 1
  /\ UNCHANGED <<params, pc, esito, cap_opened, cap_released, out_created,
                 out_opened, out_released, frame_interval>>

\* lines 51-55 and 87-91: cap.read() reports no frame, the loop breaks, both
\* handles are released and the call returns
EndOfStream ==
  /\ pc = "loop"
  /\ cap_pos >= Len(video)
  /\ cap_released' = cap_released + 1
  /\ out_released' = out_released + 1
  /\ pc' = "returned"
  /\ esito' = "completed"
  /\ UNCHANGED <<params, cap_opened, cap_pos, out_created, out_opened,
                 written, frame_count, frame_interval, analysed, gains>>

Next ==
  \/ OpenInput
  \/ OpenOutput
  \/ ComputeInterval
  \/ LoopIteration
  \/ EndOfStream

Spec == Init /\ [][Next]_vars

\* ----------------------------------------------------------- properties
\* how far the call has come: Opening until the loop is entered, Streaming
\* inside the loop, Closed once control has left the function
Lifecycle ==
  IF pc \in {"returned", "raised"} THEN "Closed"
  ELSE IF pc = "loop" THEN "Streaming"
  ELSE "Opening"

Inverse(factor) == <<factor[2], factor[1]>>

\* frame number k (1-based position in the file) falls on the interval
OnInterval(k) == frame_interval >= 1 /\ (k - 1) % frame_interval = 0

\* luminance of frame k lies within both thresholds, boundaries included
WithinThresholds(k) ==
  /\ GraySum(video[k]) >= soglia_sottoesposizione * Len(video[k])
  /\ GraySum(video[k]) <= soglia_sovraesposizione * Len(video[k])

\* w is clamp(round(num * v / den), 0, 255) for num, den > 0, whichever way
\* a tie is rounded
IsClampedRound(w, v, num, den) ==
  /\ w \in 0..MaxChannel
  /\ \/ w = MaxChannel /\ 2 * num * v >= (2 * MaxChannel - 1) * den
     \/ 2 * Abs(w * den - num * v) <= den

\* C1: every frame read is written exactly once and in order: the sink holds
\* as many frames as were read, the k-th written frame is the k-th frame of
\* the input, unmodified or scaled by one of the two gains, and a completed
\* run has written exactly Len(video) frames.
C1_OrderAndCount ==
  /\ Len(written) = cap_pos
  /\ Len(written) <= Len(video)
  /\ \A k \in 1..Len(written) :
       \/ written[k] = video[k]
       \/ written[k] = convertScaleAbs(video[k], fattore_correzione[1],
                                       fattore_correzione[2])
       \/ written[k] = convertScaleAbs(video[k], fattore_correzione[2],
                                       fattore_correzione[1])
  /\ (esito = "completed" => Len(written) = Len(video))

C1_Witness ==
  /\ esito = "completed"
  /\ Len(video) = MaxFrames
  /\ frame_interval > 1
  /\ video[1] # video[2]
  /\ written[1] # video[1]
  /\ written[2] = video[2]

\* C2: when the call has ended, every handle that was opened has been
\* released exactly once and no other handle has been released.
C2_ReleasedOnEveryExit ==
  Lifecycle = "Closed" =>
    /\ cap_released = (IF cap_opened THEN 1 ELSE 0)
    /\ out_released = (IF out_opened THEN 1 ELSE 0)

\* C3: a frame whose index is not a multiple of frame_interval is written
\* exactly as read, is not analysed and receives no gain.
C3_PassThrough ==
  \A k \in 1..Len(written) :
    ~OnInterval(k) =>
      /\ written[k] = video[k]
      /\ (k - 1) \notin analysed
      /\ gains[k] = <<>>

C3_Witness ==
  /\ esito = "completed"
  /\ \E k \in 1..Len(written) :
       /\ ~OnInterval(k)
       /\ LumBelow(video[k], soglia_sottoesposizione)
       /\ convertScaleAbs(video[k], fattore_correzione[1],
                          fattore_correzione[2]) # video[k]
       /\ written[k] = video[k]

\* C4: when the input did not open, no output writer was constructed, no
\* frame was read and no frame was written.
C4_InputFailureBeforeOutput ==
  esito = "input_open_error" =>
    /\ ~out_created
    /\ ~out_opened
    /\ cap_pos = 0
    /\ frame_count = 0
    /\ written = <<>>

C4_Witness ==
  /\ esito = "input_open_error"
  /\ pc = "returned"
  /\ ~cap_opened
  /\ video # <<>>

\* C5: with the under threshold below the over threshold, a sampled frame
\* whose mean luminance lies within the thresholds (both boundaries
\* included) is written unmodified with no gain; hence a sampled frame that
\* was modified has a luminance below the under or above the over threshold.
C5_NoGainWithinThresholds ==
  soglia_sottoesposizione < soglia_sovraesposizione =>
    \A k \in 1..Len(written) :
      /\ (OnInterval(k) /\ WithinThresholds(k)) =>
           (written[k] = video[k] /\ gains[k] = <<>>)
      /\ (OnInterval(k) /\ written[k] # video[k]) =>
           \/ LumBelow(video[k], soglia_sottoesposizione)
           \/ LumAbove(video[k], soglia_sovraesposizione)

C5_Witness ==
  /\ soglia_sottoesposizione < soglia_sovraesposizione
  /\ \E k \in 1..Len(written), j \in 1..Len(written) :
       /\ OnInterval(k)
       /\ GraySum(video[k]) = soglia_sottoesposizione * Len(video[k])
       /\ written[k] = video[k]
       /\ OnInterval(j)
       /\ GraySum(video[j]) = soglia_sovraesposizione * Len(video[j])
       /\ written[j] = video[j]

\* C6: for fps_analisi > 0 the interval in use is max(1, floor(fps /
\* fps_analisi)) and the analysed frames are exactly the indices below
\* frame_count that are multiples of it; the example call (100 frames, frame
\* rate 20, 5 analyses per second) uses interval 4 and analyses 0, 4, ..., 96.
C6_SampleInterval ==
  (fps_analisi > 0 /\ (pc = "loop" \/ esito = "completed")) =>
    /\ frame_interval >= 1
    /\ IF fps < fps_analisi
       THEN frame_interval = 1
       ELSE /\ frame_interval * fps_analisi <= fps
            /\ fps < (frame_interval + 1) * fps_analisi
    /\ analysed = { i \in 0..(frame_count - 1) : i % frame_interval = 0 }
    /\ (video = dummy_video /\ fps = ExampleFps /\ fps_analisi = ExampleRate)
         => /\ frame_interval = 4
            /\ esito = "completed" => analysed = { 4 * j : j \in 0..24 }

C6_Witness ==
  /\ esito = "completed"
  /\ Len(video) = ExampleFrames
  /\ fps = ExampleFps
  /\ fps_analisi = ExampleRate
  /\ frame_count = ExampleFrames
  /\ analysed = { 4 * j : j \in 0..24 }

\* C7: a corrected frame has a luminance outside the thresholds, and each of
\* its channels is clamp(round(g * input), 0, 255) with g the correction
\* factor for a frame below the under threshold and its inverse otherwise;
\* the value never leaves 0..255.
C7_SaturatingGain ==
  \A k \in 1..Len(written) :
    gains[k] # <<>> =>
      LET g == IF LumBelow(video[k], soglia_sottoesposizione)
               THEN fattore_correzione
               ELSE Inverse(fattore_correzione)
      IN  /\ \/ LumBelow(video[k], soglia_sottoesposizione)
             \/ LumAbove(video[k], soglia_sovraesposizione)
          /\ Len(written[k]) = Len(video[k])
          /\ \A p \in 1..Len(video[k]) : \A c \in 1..3 :
               IsClampedRound(written[k][p][c], video[k][p][c], g[1], g[2])

C7_Witness ==
  \E k \in 1..Len(written), j \in 1..Len(written) :
    /\ gains[k] = << fattore_correzione >>
    /\ gains[j] = << Inverse(fattore_correzione) >>
    /\ \E p \in 1..Len(video[j]) : \E c \in 1..3 :
         /\ fattore_correzione[2] * video[j][p][c]
              > MaxChannel * fattore_correzione[1]
         /\ written[j][p][c] = MaxChannel
    /\ \E p \in 1..Len(video[k]) : \E c \in 1..3 :
         written[k][p][c] # video[k][p][c]

\* C8: a sampling rate that is zero, negative or above the native frame rate
\* is not rejected: the call does not fail on it, the interval is 1 and every
\* frame read is analysed.
C8_RateFallback ==
  (fps_analisi <= 0 \/ fps_analisi > fps) =>
    /\ pc # "raised"
    /\ (pc = "loop" \/ esito = "completed") =>
         /\ frame_interval = 1
         /\ analysed = 0..(frame_count - 1)

\* C9: the lifecycle only moves Opening -> Streaming (both handles open),
\* Opening -> Closed (one of the opens failed) and Streaming -> Closed (input
\* exhausted); nothing changes once Closed, and frames are read and written
\* only while Streaming.
C9_LifecycleStep ==
  \/ /\ Lifecycle' = Lifecycle
     /\ Lifecycle # "Closed"
     /\ Lifecycle = "Opening" => (cap_pos' = cap_pos /\ written' = written)
  \/ /\ Lifecycle = "Opening" /\ Lifecycle' = "Streaming"
     /\ cap_opened' /\ out_opened'
     /\ cap_pos' = cap_pos /\ written' = written
  \/ /\ Lifecycle = "Opening" /\ Lifecycle' = "Closed"
     /\ ~cap_opened' \/ ~out_opened'
     /\ cap_pos' = cap_pos /\ written' = written
  \/ /\ Lifecycle = "Streaming" /\ Lifecycle' = "Closed"
     /\ cap_pos = Len(video)
     /\ cap_pos' = cap_pos /\ written' = written

C9_Lifecycle == [][C9_LifecycleStep]_vars

\* C10: no frame receives more than one gain; a sampled frame whose
\* luminance is below the under threshold and above the over threshold at
\* once (inverted thresholds) is brightened by the correction factor and is
\* not darkened.
C10_AtMostOneGain ==
  \A k \in 1..Len(written) :
    /\ Len(gains[k]) <= 1
    /\ ( /\ OnInterval(k)
         /\ LumBelow(video[k], soglia_sottoesposizione)
         /\ LumAbove(video[k], soglia_sovraesposizione) )
       => /\ gains[k] = << fattore_correzione >>
          /\ written[k] = convertScaleAbs(video[k], fattore_correzione[1],
                                          fattore_correzione[2])

C10_Witness ==
  /\ soglia_sottoesposizione > soglia_sovraesposizione
  /\ \E k \in 1..Len(written) :
       /\ OnInterval(k)
       /\ LumBelow(video[k], soglia_sottoesposizione)
       /\ LumAbove(video[k], soglia_sovraesposizione)
       /\ gains[k] = << fattore_correzione >>
       /\ written[k] # video[k]
       /\ written[k] # convertScaleAbs(video[k], fattore_correzione[2],
                                       fattore_correzione[1])

====
